---- MODULE Spec2Model ----
(***************************************************************************)
(* Model of modem.py: the USB modem controller.  main resolves a serial    *)
(* port, constructs a USBModemHandler, waits for a ring, answers, plays a  *)
(* clip, sends a DTMF tone, hangs up and closes.  Strings the code looks   *)
(* inside (modem lines, operator input) are sequences of characters;       *)
(* device paths and glob patterns are sequences of path tokens, "*"        *)
(* matching any run of tokens.  Debug logging (--verbose) is left out.     *)
(***************************************************************************)
EXTENDS Integers, Sequences, FiniteSets, TLC

VARIABLES
    argv,         \* the command line: [port, no_audio, dtmf, audio]
    system,       \* platform.system()
    fs,           \* device paths present in the filesystem
    dirOrder,     \* the directory order glob.glob saw last
    pathCmds,     \* commands that shutil.which finds on PATH
    tty,          \* sys.stdin.isatty()
    pc,           \* position of main
    port,         \* main's local `port`
    player,       \* main's local `audio_player`
    candidates,   \* main's local `candidates`
    called,       \* resolver functions main has called, in order
    handle,       \* serial.Serial handle: "none", "open", "closed"
    session,      \* TRUE once USBModemHandler.__init__ has returned
    selfPlayer,   \* modem.audio_player
    events,       \* operations performed on the device and player, in order
    polls,        \* iterations of the detect_incoming_call loop
    lastLine,     \* the line most recently read by detect_incoming_call
    isRing,       \* what is_ring_line returned last
    inbuf,        \* lines the modem has sent that are not read yet
    exc,          \* the exception in flight, "none" if none
    log,          \* messages logged at info or error level, in order
    ppc,          \* position inside prompt_select_port
    choices,      \* prompt_select_port's `choices`
    reads,        \* calls of input_fn made so far
    lastInput,    \* the value input_fn returned last
    reports,      \* invalid-input reports printed so far
    presult       \* value returned by prompt_select_port

mainVars == <<argv, system, fs, dirOrder, pathCmds, tty, pc, port, player, candidates,
              called, handle, session, selfPlayer, events, polls, lastLine, isRing, inbuf,
              exc, log>>
promptVars == <<ppc, choices, reads, lastInput, reports, presult>>
vars == <<argv, system, fs, dirOrder, pathCmds, tty, pc, port, player, candidates,
          called, handle, session, selfPlayer, events, polls, lastLine, isRing, inbuf,
          exc, log, ppc, choices, reads, lastInput, reports, presult>>

----------------------------------------------------------------------------
(* Bounds *)

MaxPolls == 3
MaxReads == 3
MaxBuf == 1
MaxLineLen == 4

----------------------------------------------------------------------------
(* Values *)

None == <<"None">>
NoPlayer == "None"
NoFlag == <<"NoFlag">>

Falsy(x) == x = None \/ x = <<>>

AUDIO_CANDIDATES == <<"afplay", "aplay", "play">>

DefaultPortArg == <<"/dev/", "ttyUSB", "0">>
DefaultAudioArg == "message.wav"
DefaultDtmfArg == "1"

ATE0 == <<"ATE0", "\r">>
ATA == <<"ATA", "\r">>
ATH == <<"ATH", "\r">>
VTS(tone) == <<"AT+VTS=", tone, "\r">>

Systems == {"Darwin", "Linux", "Windows", "Java"}

TtyUSB0 == <<"/dev/", "ttyUSB", "0">>
TtyUSB1 == <<"/dev/", "ttyUSB", "1">>
CuUsbserial == <<"/dev/", "cu.", "usb", "serial", "-XYZ">>
CuBluetooth == <<"/dev/", "cu.", "Bluetooth-Incoming-Port">>
TtyACM0 == <<"/dev/", "ttyACM", "0">>
SerialById == <<"/dev/", "serial/", "by-id/", "usb-modem">>
TtyUsbmodem == <<"/dev/", "tty.", "usb", "modem", "1">>
DevicePaths == {TtyUSB0, TtyUSB1, CuUsbserial, CuBluetooth, TtyACM0,
                SerialById, TtyUsbmodem}

\* the filesystems and search paths main is run against
MainFilesystems == { {}, {CuBluetooth}, {CuBluetooth, CuUsbserial},
                     {TtyUSB0, TtyUSB1} }
SearchPaths == { {}, {"aplay"}, {"play"}, {"afplay", "play"} }

ExplicitPort == <<"/dev/", "ttyS", "9">>
PortArgs == {NoFlag, <<>>, ExplicitPort}
Tones == {"1", "#"}

Whitespace == {" ", "\t", "\r", "\n"}
BadByte == "<ff>"
DotlessI == "<U+0131>"
ExitCodes == {"0", "1"}

\* the characters of the lines is_ring_line is called on
RingAlphabet == {"R", "r", "I", "i", DotlessI, "N", "n", "g", " "}
RECURSIVE StringsUpTo(_)
StringsUpTo(n) ==
    IF n = 0 THEN { <<>> }
    ELSE StringsUpTo(n - 1)
           \cup { Append(t, c) : t \in StringsUpTo(n - 1), c \in RingAlphabet }

RawLines ==
    { <<>>,
      <<"\r", "\n">>,
      <<"O", "K", "\r", "\n">>,
      <<"R", "I", "N", "G", "\r", "\n">>,
      <<" ", "r", "i", "n", "g", " ">>,
      <<"R", "I", BadByte, "N", "G">>,
      <<"N", "O", " ", "C", "A", "R", "R", "I", "E", "R", "\r", "\n">> }

InputStrings ==
    { <<>>, <<" ">>, <<"x">>, <<"0">>, <<"1">>, <<"2">>, <<"3">>,
      <<" ", "2", " ">>, <<"-", "1">>, <<"+", "1">>, <<"0", "2">>,
      <<"1", "x">>, <<"1", "_", "0">>, <<"1", "0">> }

ChoiceLists == { <<>>, <<TtyUSB0>>, <<TtyUSB0, TtyUSB1>>,
                 <<CuBluetooth, CuUsbserial, TtyUSB0>> }

OpenErrors == [isPermissionError : BOOLEAN, mentionsPermission : BOOLEAN]

----------------------------------------------------------------------------
(* Pure helpers *)

Range(s) == { s[i] : i \in 1..Len(s) }

RECURSIVE Perms(_)
Perms(S) ==
    IF S = {} THEN { <<>> }
    ELSE UNION { { <<x>> \o p : p \in Perms(S \ {x}) } : x \in S }

\* str.strip(): drop leading and trailing whitespace
RECURSIVE LStrip(_)
LStrip(s) == IF s # <<>> /\ Head(s) \in Whitespace THEN LStrip(Tail(s)) ELSE s
RECURSIVE RStrip(_)
RStrip(s) ==
    IF s # <<>> /\ s[Len(s)] \in Whitespace
    THEN RStrip(SubSeq(s, 1, Len(s) - 1)) ELSE s
Strip(s) == RStrip(LStrip(s))

\* bytes.decode(errors="ignore"): undecodable bytes are dropped
Decode(raw) == SelectSeq(raw, LAMBDA b : b # BadByte)

LowerLetters == <<"a","b","c","d","e","f","g","h","i","j","k","l","m",
                  "n","o","p","q","r","s","t","u","v","w","x","y","z">>
UpperLetters == <<"A","B","C","D","E","F","G","H","I","J","K","L","M",
                  "N","O","P","Q","R","S","T","U","V","W","X","Y","Z">>
\* str.upper() of one character; U+0131 is the one character outside
\* a..z whose upper case is one of R, I, N, G
UpperChar(c) ==
    IF \E i \in 1..26 : LowerLetters[i] = c
    THEN UpperLetters[CHOOSE i \in 1..26 : LowerLetters[i] = c]
    ELSE IF c = DotlessI THEN "I"
    ELSE c
Upper(s) == [i \in 1..Len(s) |-> UpperChar(s[i])]

\* `sub in s` for strings
Contains(s, sub) ==
    \E i \in 0..(Len(s) - Len(sub)) : SubSeq(s, i + 1, i + Len(sub)) = sub

is_ring_line(line) ==
    IF line = <<>> THEN FALSE
    ELSE Contains(Upper(line), <<"R", "I", "N", "G">>)

choose_audio_player(onPath) ==
    IF \E i \in 1..Len(AUDIO_CANDIDATES) : AUDIO_CANDIDATES[i] \in onPath
    THEN AUDIO_CANDIDATES[CHOOSE i \in 1..Len(AUDIO_CANDIDATES) :
             /\ AUDIO_CANDIDATES[i] \in onPath
             /\ \A j \in 1..(i - 1) : AUDIO_CANDIDATES[j] \notin onPath]
    ELSE NoPlayer

\* fnmatch of a path against a pattern, token by token
RECURSIVE Match(_, _)
Match(pat, path) ==
    IF pat = <<>> THEN path = <<>>
    ELSE IF Head(pat) = "*"
         THEN \/ Match(Tail(pat), path)
              \/ path # <<>> /\ Match(pat, Tail(path))
         ELSE path # <<>> /\ Head(pat) = Head(path) /\ Match(Tail(pat), Tail(path))

\* glob.glob(p): the matching paths in directory order
Glob(order, pat) == SelectSeq(order, LAMBDA x : Match(pat, x))

DetectPatterns(sys) ==
    IF sys = "Darwin"
    THEN << <<"/dev/", "cu.", "usb", "serial", "*">>,
            <<"/dev/", "tty.", "usb", "serial", "*">>,
            <<"/dev/", "cu.", "usb", "modem", "*">>,
            <<"/dev/", "tty.", "usb", "modem", "*">>,
            <<"/dev/", "cu.", "*", "usb", "*">> >>
    ELSE IF sys = "Linux"
    THEN << <<"/dev/", "ttyUSB", "*">>, <<"/dev/", "ttyACM", "*">> >>
    ELSE << >>

DetectFallback(sys) ==
    IF sys = "Linux" THEN <<"/dev/", "ttyUSB", "0">>
    ELSE IF sys = "Windows" THEN <<"COM1">>
    ELSE None

\* FirstMatch returning m[-1], the last match of the pattern
RECURSIVE FirstMatchLast(_, _, _)
FirstMatchLast(pats, order, fallback) ==
    IF pats = <<>> THEN fallback
    ELSE IF Glob(order, Head(pats)) # <<>>
         THEN Glob(order, Head(pats))[Len(Glob(order, Head(pats)))]
    ELSE FirstMatchLast(Tail(pats), order, fallback)

RECURSIVE FirstMatch(_, _, _)
FirstMatch(pats, order, fallback) ==
    IF pats = <<>> THEN fallback
    ELSE IF Glob(order, Head(pats)) # <<>> THEN Glob(order, Head(pats))[1]
    ELSE FirstMatch(Tail(pats), order, fallback)

detect_default_port(sys, order) ==
    FirstMatch(DetectPatterns(sys), order, DetectFallback(sys))

ListPatterns(sys) ==
    IF sys = "Darwin"
    THEN << <<"/dev/", "cu.", "*">>, <<"/dev/", "tty.", "*">> >>
    ELSE IF sys = "Linux"
    THEN << <<"/dev/", "ttyUSB", "*">>, <<"/dev/", "ttyACM", "*">>,
            <<"/dev/", "serial/", "by-id/", "*">> >>
    ELSE << >>

\* the device paths in string order, the key sorted() orders them by
SortedPaths == <<CuBluetooth, CuUsbserial, SerialById, TtyUsbmodem, TtyACM0,
                 TtyUSB0, TtyUSB1>>
Sorted(s) == SelectSeq(SortedPaths, LAMBDA x : x \in Range(s))

\* ConcatSorted stopping at the first pattern that matches
RECURSIVE ConcatSortedFirstOnly(_, _)
ConcatSortedFirstOnly(pats, order) ==
    IF pats = <<>> THEN <<>>
    ELSE IF Glob(order, Head(pats)) # <<>> THEN Sorted(Glob(order, Head(pats)))
    ELSE ConcatSortedFirstOnly(Tail(pats), order)

RECURSIVE ConcatSorted(_, _)
ConcatSorted(pats, order) ==
    IF pats = <<>> THEN <<>>
    ELSE Sorted(Glob(order, Head(pats))) \o ConcatSorted(Tail(pats), order)

list_available_ports(sys, order) ==
    IF sys = "Windows" THEN <<>>
    ELSE ConcatSorted(ListPatterns(sys), order)

\* int(s) on an already stripped string: optional sign, then digits with
\* single underscores allowed between digits; anything else is ValueError
Digits == <<"0", "1", "2", "3", "4", "5", "6", "7", "8", "9">>
IsDigit(c) == \E i \in 1..10 : Digits[i] = c
DigitValue(c) == (CHOOSE i \in 1..10 : Digits[i] = c) - 1

IntBody(s) == IF s # <<>> /\ Head(s) \in {"+", "-"} THEN Tail(s) ELSE s

IsIntLiteral(s) ==
    LET b == IntBody(s) IN
    /\ b # <<>>
    /\ IsDigit(b[1]) /\ IsDigit(b[Len(b)])
    /\ \A i \in 1..Len(b) : IsDigit(b[i]) \/ b[i] = "_"
    /\ \A i \in 1..(Len(b) - 1) : ~(b[i] = "_" /\ b[i + 1] = "_")

RECURSIVE Magnitude(_)
Magnitude(ds) ==
    IF ds = <<>> THEN 0
    ELSE 10 * Magnitude(SubSeq(ds, 1, Len(ds) - 1)) + DigitValue(ds[Len(ds)])

IntValue(s) ==
    LET m == Magnitude(SelectSeq(IntBody(s), IsDigit)) IN
    IF Head(s) = "-" THEN 0 - m ELSE m

----------------------------------------------------------------------------
(* prompt_select_port *)

\* PromptEnter without the test for an empty list
PromptEnterNoEmptyTest ==
    /\ ppc = "enter"
    /\ ppc' = "loop"
    /\ UNCHANGED presult
    /\ UNCHANGED <<choices, reads, lastInput, reports>>
    /\ UNCHANGED mainVars

PromptEnter ==
    /\ ppc = "enter"
    /\ IF choices = <<>>
       THEN /\ ppc' = "returned"
            /\ presult' = None
       ELSE /\ ppc' = "loop"
            /\ UNCHANGED presult
    /\ UNCHANGED <<choices, reads, lastInput, reports>>
    /\ UNCHANGED mainVars

\* PromptRead with the lower bound of the range test off by one
PromptReadFromZero ==
    /\ ppc = "loop"
    /\ reads < MaxReads
    /\ \/ /\ ppc' = "raised"
          /\ reads' = reads + 1
          /\ UNCHANGED <<lastInput, reports, presult>>
       \/ \E sel \in InputStrings :
            /\ reads' = reads + 1
            /\ lastInput' = sel
            /\ IF Strip(sel) = <<>>
               THEN /\ ppc' = "returned"
                    /\ presult' = None
                    /\ UNCHANGED reports
               ELSE IF IsIntLiteral(Strip(sel))
               THEN IF 0 <= IntValue(Strip(sel)) /\ IntValue(Strip(sel)) <= Len(choices)
                    THEN /\ ppc' = "returned"
                         /\ presult' = choices[IF IntValue(Strip(sel)) = 0
                                               THEN Len(choices)
                                               ELSE IntValue(Strip(sel))]
                         /\ UNCHANGED reports
                    ELSE /\ ppc' = "loop"
                         /\ reports' = Append(reports, "Invalid selection")
                         /\ UNCHANGED presult
               ELSE /\ ppc' = "loop"
                    /\ reports' = Append(reports, "Invalid input")
                    /\ UNCHANGED presult
    /\ UNCHANGED choices
    /\ UNCHANGED mainVars

\* one iteration of the while loop: input_fn returns sel, or raises
PromptRead ==
    /\ ppc = "loop"
    /\ reads < MaxReads
    /\ \/ /\ ppc' = "raised"
          /\ reads' = reads + 1
          /\ UNCHANGED <<lastInput, reports, presult>>
       \/ \E sel \in InputStrings :
            /\ reads' = reads + 1
            /\ lastInput' = sel
            /\ IF Strip(sel) = <<>>
               THEN /\ ppc' = "returned"
                    /\ presult' = None
                    /\ UNCHANGED reports
               ELSE IF IsIntLiteral(Strip(sel))
               THEN IF 1 <= IntValue(Strip(sel)) /\ IntValue(Strip(sel)) <= Len(choices)
                    THEN /\ ppc' = "returned"
                         /\ presult' = choices[IntValue(Strip(sel))]
                         /\ UNCHANGED reports
                    ELSE /\ ppc' = "loop"
                         /\ reports' = Append(reports, "Invalid selection")
                         /\ UNCHANGED presult
               ELSE /\ ppc' = "loop"
                    /\ reports' = Append(reports, "Invalid input")
                    /\ UNCHANGED presult
    /\ UNCHANGED choices
    /\ UNCHANGED mainVars

----------------------------------------------------------------------------
(* main and USBModemHandler *)

Ev(op, arg) == [op |-> op, arg |-> arg]
Written == [i \in 1..Len(SelectSeq(events, LAMBDA e : e.op = "write")) |->
               SelectSeq(events, LAMBDA e : e.op = "write")[i].arg]

\* parse_args, the audio player choice and the first test of `port`
MainStart ==
    /\ pc = "start"
    /\ port' = IF argv.port = NoFlag THEN DefaultPortArg ELSE argv.port
    /\ player' = IF argv.no_audio THEN NoPlayer ELSE choose_audio_player(pathCmds)
    /\ pc' = IF Falsy(port') THEN "detect" ELSE "construct"
    /\ UNCHANGED <<argv, system, fs, dirOrder, pathCmds, tty, candidates, called, handle,
                   session, selfPlayer, events, polls, lastLine, isRing, inbuf, exc, log>>
    /\ UNCHANGED promptVars

MainDetect ==
    /\ pc = "detect"
    /\ \E order \in Perms(fs) :
         /\ dirOrder' = order
         /\ port' = detect_default_port(system, order)
    /\ called' = Append(called, "detect_default_port")
    /\ pc' = IF Falsy(port') THEN "list" ELSE "construct"
    /\ UNCHANGED <<argv, system, fs, pathCmds, tty, player, candidates, handle,
                   session, selfPlayer, events, polls, lastLine, isRing, inbuf,
                   exc, log>>
    /\ UNCHANGED promptVars

\* MainList prompting whenever there are candidates, TTY or not
MainListNoTtyTest ==
    /\ pc = "list"
    /\ \E order \in Perms(fs) :
         /\ dirOrder' = order
         /\ candidates' = list_available_ports(system, order)
    /\ IF candidates' # <<>>
       THEN /\ pc' = "prompt"
            /\ called' = called \o <<"list_available_ports", "prompt_select_port">>
            /\ ppc' = "enter"
            /\ choices' = candidates'
            /\ UNCHANGED log
       ELSE /\ pc' = "done"
            /\ called' = Append(called, "list_available_ports")
            /\ log' = Append(log, "error: No serial port detected")
            /\ UNCHANGED <<ppc, choices>>
    /\ UNCHANGED <<argv, system, fs, pathCmds, tty, port, player, handle,
                   session, selfPlayer, events, polls, lastLine, isRing, inbuf,
                   exc>>
    /\ UNCHANGED <<reads, lastInput, reports, presult>>

MainList ==
    /\ pc = "list"
    /\ \E order \in Perms(fs) :
         /\ dirOrder' = order
         /\ candidates' = list_available_ports(system, order)
    /\ IF candidates' # <<>> /\ tty
       THEN /\ pc' = "prompt"
            /\ called' = called \o <<"list_available_ports", "prompt_select_port">>
            /\ ppc' = "enter"
            /\ choices' = candidates'
            /\ UNCHANGED log
       ELSE /\ pc' = "done"
            /\ called' = Append(called, "list_available_ports")
            /\ log' = Append(log, "error: No serial port detected")
            /\ UNCHANGED <<ppc, choices>>
    /\ UNCHANGED <<argv, system, fs, pathCmds, tty, port, player, handle,
                   session, selfPlayer, events, polls, lastLine, isRing, inbuf,
                   exc>>
    /\ UNCHANGED <<reads, lastInput, reports, presult>>

MainPromptReturn ==
    /\ pc = "prompt"
    /\ ppc = "returned"
    /\ IF ~Falsy(presult)
       THEN /\ port' = presult
            /\ pc' = "construct"
            /\ UNCHANGED log
       ELSE /\ pc' = "done"
            /\ log' = Append(log, "error: No serial port selected")
            /\ UNCHANGED port
    /\ ppc' = "idle"
    /\ UNCHANGED <<argv, system, fs, dirOrder, pathCmds, tty, player, candidates, called,
                   handle, session, selfPlayer, events, polls, lastLine, isRing, inbuf, exc>>
    /\ UNCHANGED <<choices, reads, lastInput, reports, presult>>

MainPromptRaise ==
    /\ pc = "prompt"
    /\ ppc = "raised"
    /\ exc' = "InputError"
    /\ pc' = "raised"
    /\ ppc' = "idle"
    /\ UNCHANGED <<argv, system, fs, dirOrder, pathCmds, tty, port, player, candidates,
                   called, handle, session, selfPlayer, events, polls,
                   lastLine, isRing, inbuf, log>>
    /\ UNCHANGED <<choices, reads, lastInput, reports, presult>>

\* ModemOpen with the `raise` of the except clause missing
ModemOpenNoRaise ==
    /\ pc = "construct"
    /\ \/ /\ handle' = "open"
          /\ events' = Append(events, Ev("open", port))
          /\ log' = Append(log, "info: Starting modem controller")
          /\ pc' = "init_write"
          /\ UNCHANGED exc
       \/ \E e \in OpenErrors :
            /\ log' = log \o <<"info: Starting modem controller",
                               "error: Failed to open serial port">>
                       \o (IF e.isPermissionError \/ e.mentionsPermission
                           THEN IF system = "Linux"
                                THEN <<"error: Permission denied (Linux hint)">>
                                ELSE IF system = "Darwin"
                                THEN <<"error: Permission denied (Darwin hint)">>
                                ELSE <<>>
                           ELSE <<>>)
            /\ exc' = "OpenError"
            /\ pc' = "init_write"
            /\ UNCHANGED <<handle, events>>
    /\ UNCHANGED <<argv, system, fs, dirOrder, pathCmds, tty, port, player, candidates,
                   called, session, selfPlayer, polls, lastLine, isRing, inbuf>>
    /\ UNCHANGED promptVars

\* USBModemHandler.__init__ up to the open: serial.Serial opens or raises e
ModemOpen ==
    /\ pc = "construct"
    /\ \/ /\ handle' = "open"
          /\ events' = Append(events, Ev("open", port))
          /\ log' = Append(log, "info: Starting modem controller")
          /\ pc' = "init_write"
          /\ UNCHANGED exc
       \/ \E e \in OpenErrors :
            /\ log' = log \o <<"info: Starting modem controller",
                               "error: Failed to open serial port">>
                       \o (IF e.isPermissionError \/ e.mentionsPermission
                           THEN IF system = "Linux"
                                THEN <<"error: Permission denied (Linux hint)">>
                                ELSE IF system = "Darwin"
                                THEN <<"error: Permission denied (Darwin hint)">>
                                ELSE <<>>
                           ELSE <<>>)
            /\ exc' = "OpenError"
            /\ pc' = "raised"
            /\ UNCHANGED <<handle, events>>
    /\ UNCHANGED <<argv, system, fs, dirOrder, pathCmds, tty, port, player, candidates,
                   called, session, selfPlayer, polls, lastLine, isRing, inbuf>>
    /\ UNCHANGED promptVars

\* the rest of __init__: the echo-disable write and the audio player
ModemInit ==
    /\ pc = "init_write"
    /\ \/ /\ events' = Append(events, Ev("write", ATE0))
          /\ selfPlayer' = IF player # NoPlayer THEN player
                           ELSE choose_audio_player(pathCmds)
          /\ log' = Append(log, "info: Using audio player")
          /\ session' = TRUE
          /\ pc' = "listen"
          /\ UNCHANGED exc
       \/ /\ exc' = "DeviceIOError"
          /\ pc' = "raised"
          /\ UNCHANGED <<events, selfPlayer, log, session>>
    /\ UNCHANGED <<argv, system, fs, dirOrder, pathCmds, tty, port, player, candidates,
                   called, handle, polls, lastLine, isRing, inbuf>>
    /\ UNCHANGED promptVars

\* the modem sends a line; only lines sent while detect_incoming_call may
\* still read them are modelled, no other line is ever read
ModemSend ==
    /\ pc = "listen"
    /\ polls + Len(inbuf) < MaxPolls
    /\ Len(inbuf) < MaxBuf
    /\ \E raw \in RawLines \ {<<>>} : inbuf' = Append(inbuf, raw)
    /\ UNCHANGED <<argv, system, fs, dirOrder, pathCmds, tty, pc, port, player,
                   candidates, called, handle, session, selfPlayer, events,
                   polls, lastLine, isRing, exc, log>>
    /\ UNCHANGED promptVars

\* DetectIncomingCall returning on any non-empty line
DetectIncomingCallAnyLine ==
    /\ pc = "listen"
    /\ polls < MaxPolls
    /\ polls' = polls + 1
    /\ log' = IF polls = 0 THEN Append(log, "info: Listening for incoming calls")
              ELSE log
    /\ \/ /\ exc' = "DeviceIOError"
          /\ pc' = "finally"
          /\ UNCHANGED <<lastLine, isRing, inbuf>>
       \/ /\ inbuf = <<>>
          /\ UNCHANGED <<pc, lastLine, isRing, inbuf, exc>>
       \/ /\ inbuf # <<>>
          /\ lastLine' = Strip(Decode(Head(inbuf)))
          /\ inbuf' = Tail(inbuf)
          /\ isRing' = (lastLine' # <<>>)
          /\ pc' = IF isRing' THEN "pickup" ELSE "listen"
          /\ UNCHANGED exc
    /\ UNCHANGED <<argv, system, fs, dirOrder, pathCmds, tty, port, player,
                   candidates, called, handle, session, selfPlayer, events>>
    /\ UNCHANGED promptVars

\* DetectIncomingCall giving up, returning False, on its last iteration
DetectIncomingCallTimeout ==
    /\ pc = "listen"
    /\ polls < MaxPolls
    /\ polls' = polls + 1
    /\ log' = IF polls = 0 THEN Append(log, "info: Listening for incoming calls")
              ELSE log
    /\ \/ /\ exc' = "DeviceIOError"
          /\ pc' = "finally"
          /\ UNCHANGED <<lastLine, isRing, inbuf>>
       \/ /\ inbuf = <<>>
          /\ pc' = IF polls' = MaxPolls THEN "finally" ELSE "listen"
          /\ UNCHANGED <<lastLine, isRing, inbuf, exc>>
       \/ /\ inbuf # <<>>
          /\ lastLine' = Strip(Decode(Head(inbuf)))
          /\ inbuf' = Tail(inbuf)
          /\ isRing' = is_ring_line(lastLine')
          /\ pc' = IF isRing' THEN "pickup" ELSE "listen"
          /\ UNCHANGED exc
    /\ UNCHANGED <<argv, system, fs, dirOrder, pathCmds, tty, port, player,
                   candidates, called, handle, session, selfPlayer, events>>
    /\ UNCHANGED promptVars

\* one iteration of detect_incoming_call's loop: in_waiting or readline
\* raises, or nothing is waiting, or a line is read and classified
DetectIncomingCall ==
    /\ pc = "listen"
    /\ polls < MaxPolls
    /\ polls' = polls + 1
    /\ log' = IF polls = 0 THEN Append(log, "info: Listening for incoming calls")
              ELSE log
    /\ \/ /\ exc' = "DeviceIOError"
          /\ pc' = "finally"
          /\ UNCHANGED <<lastLine, isRing, inbuf>>
       \/ /\ inbuf = <<>>
          /\ UNCHANGED <<pc, lastLine, isRing, inbuf, exc>>
       \/ /\ inbuf # <<>>
          /\ lastLine' = Strip(Decode(Head(inbuf)))
          /\ inbuf' = Tail(inbuf)
          /\ isRing' = is_ring_line(lastLine')
          /\ pc' = IF isRing' THEN "pickup" ELSE "listen"
          /\ UNCHANGED exc
    /\ UNCHANGED <<argv, system, fs, dirOrder, pathCmds, tty, port, player,
                   candidates, called, handle, session, selfPlayer, events>>
    /\ UNCHANGED promptVars

\* WriteStep with the failure swallowed: the sequence carries on
WriteStepSwallow(cmd, next) ==
    /\ \/ /\ events' = Append(events, Ev("write", cmd))
          /\ pc' = next
          /\ UNCHANGED exc
       \/ /\ exc' = "DeviceIOError"
          /\ pc' = next
          /\ UNCHANGED events
    /\ UNCHANGED <<argv, system, fs, dirOrder, pathCmds, tty, port, player, candidates,
                   called, handle, session, selfPlayer, polls, lastLine, isRing, inbuf>>
    /\ UNCHANGED promptVars

\* self.ser.write(cmd): succeeds and moves on to `next`, or raises
WriteStep(cmd, next) ==
    /\ \/ /\ events' = Append(events, Ev("write", cmd))
          /\ pc' = next
          /\ UNCHANGED exc
       \/ /\ exc' = "DeviceIOError"
          /\ pc' = "finally"
          /\ UNCHANGED events
    /\ UNCHANGED <<argv, system, fs, dirOrder, pathCmds, tty, port, player, candidates,
                   called, handle, session, selfPlayer, polls, lastLine, isRing, inbuf>>
    /\ UNCHANGED promptVars

PickupCall ==
    /\ pc = "pickup"
    /\ WriteStep(ATA, "answered")
    /\ log' = IF pc' = "answered" THEN Append(log, "info: Call answered") ELSE log

\* MainAfterPickup without the test of --no-audio
MainAfterPickupAlwaysPlay ==
    /\ pc = "answered"
    /\ pc' = "play"
    /\ UNCHANGED <<argv, system, fs, dirOrder, pathCmds, tty, port, player, candidates,
                   called, handle, session, selfPlayer, events, polls,
                   lastLine, isRing, inbuf, exc, log>>
    /\ UNCHANGED promptVars

\* main, lines 223-224: whether playback is requested
MainAfterPickup ==
    /\ pc = "answered"
    /\ pc' = IF ~argv.no_audio THEN "play" ELSE "dtmf"
    /\ UNCHANGED <<argv, system, fs, dirOrder, pathCmds, tty, port, player, candidates,
                   called, handle, session, selfPlayer, events, polls,
                   lastLine, isRing, inbuf, exc, log>>
    /\ UNCHANGED promptVars

\* PlayRecording without the test of self.audio_player
PlayRecordingNoCheck ==
    /\ pc = "play"
    /\ events' = Append(events, Ev("run", <<selfPlayer, argv.audio>>))
    /\ pc' = "playing"
    /\ UNCHANGED exc
    /\ UNCHANGED <<argv, system, fs, dirOrder, pathCmds, tty, port, player,
                   candidates, called, handle, session, selfPlayer, polls,
                   lastLine, isRing, inbuf, log>>
    /\ UNCHANGED promptVars

\* play_recording up to the start of the player process
PlayRecording ==
    /\ pc = "play"
    /\ IF selfPlayer = NoPlayer
       THEN /\ exc' = "NoAudioPlayer"
            /\ pc' = "finally"
            /\ UNCHANGED events
       ELSE /\ events' = Append(events, Ev("run", <<selfPlayer, argv.audio>>))
            /\ pc' = "playing"
            /\ UNCHANGED exc
    /\ UNCHANGED <<argv, system, fs, dirOrder, pathCmds, tty, port, player,
                   candidates, called, handle, session, selfPlayer, polls,
                   lastLine, isRing, inbuf, log>>
    /\ UNCHANGED promptVars

\* PlayerExit as subprocess.run(check=True): a non-zero exit code raises
PlayerExitChecked ==
    /\ pc = "playing"
    /\ \E rc \in ExitCodes :
         /\ events' = Append(events, Ev("exit", <<rc>>))
         /\ IF rc = "0"
            THEN pc' = "dtmf" /\ UNCHANGED exc
            ELSE pc' = "finally" /\ exc' = "CalledProcessError"
    /\ UNCHANGED <<argv, system, fs, dirOrder, pathCmds, tty, port, player,
                   candidates, called, handle, session, selfPlayer, polls,
                   lastLine, isRing, inbuf, log>>
    /\ UNCHANGED promptVars

\* subprocess.run(check=False) returns when the player exits, with any code
PlayerExit ==
    /\ pc = "playing"
    /\ \E rc \in ExitCodes :
         events' = Append(events, Ev("exit", <<rc>>))
    /\ pc' = "dtmf"
    /\ UNCHANGED exc
    /\ UNCHANGED <<argv, system, fs, dirOrder, pathCmds, tty, port, player,
                   candidates, called, handle, session, selfPlayer, polls,
                   lastLine, isRing, inbuf, log>>
    /\ UNCHANGED promptVars

SendDtmf ==
    /\ pc = "dtmf"
    /\ WriteStep(VTS(argv.dtmf), "hangup")
    /\ log' = IF pc' = "hangup" THEN Append(log, "info: Sent DTMF") ELSE log

\* Hangup that also closes the connection, ahead of main's finally
HangupAndClose ==
    /\ pc = "hangup"
    /\ pc' = "finally"
    /\ events' = events \o <<Ev("write", ATH), Ev("close", <<>>)>>
    /\ handle' = "closed"
    /\ log' = Append(log, "info: Call ended")
    /\ UNCHANGED <<argv, system, fs, dirOrder, pathCmds, tty, port, player,
                   candidates, called, session, selfPlayer, polls, lastLine,
                   isRing, inbuf, exc>>
    /\ UNCHANGED promptVars

\* Hangup that never writes the command
HangupNoWrite ==
    /\ pc = "hangup"
    /\ pc' = "finally"
    /\ log' = Append(log, "info: Call ended")
    /\ UNCHANGED <<argv, system, fs, dirOrder, pathCmds, tty, port, player, candidates,
                   called, handle, session, selfPlayer, events, polls,
                   lastLine, isRing, inbuf, exc>>
    /\ UNCHANGED promptVars

Hangup ==
    /\ pc = "hangup"
    /\ WriteStep(ATH, "finally")
    /\ log' = IF exc' = "none" THEN Append(log, "info: Call ended") ELSE log

\* the finally clause of main: modem.close()
Close ==
    /\ pc = "finally"
    /\ handle' = "closed"
    /\ events' = Append(events, Ev("close", <<>>))
    /\ pc' = IF exc = "none" THEN "done" ELSE "raised"
    /\ UNCHANGED <<argv, system, fs, dirOrder, pathCmds, tty, port, player, candidates,
                   called, session, selfPlayer, polls, lastLine, isRing, inbuf, exc, log>>
    /\ UNCHANGED promptVars

----------------------------------------------------------------------------
(* Specifications *)

Init ==
    /\ argv \in [port : PortArgs, no_audio : BOOLEAN, dtmf : Tones,
                 audio : {DefaultAudioArg}]
    /\ system \in Systems
    /\ fs \in MainFilesystems
    /\ dirOrder = <<>>
    /\ pathCmds \in SearchPaths
    /\ tty \in BOOLEAN
    /\ pc = "start"
    /\ port = None
    /\ player = NoPlayer
    /\ candidates = <<>>
    /\ called = <<>>
    /\ handle = "none"
    /\ session = FALSE
    /\ selfPlayer = NoPlayer
    /\ events = <<>>
    /\ polls = 0
    /\ lastLine = <<>>
    /\ isRing = FALSE
    /\ inbuf = <<>>
    /\ exc = "none"
    /\ log = <<>>
    /\ ppc = "idle"
    /\ choices = <<>>
    /\ reads = 0
    /\ lastInput = <<>>
    /\ reports = <<>>
    /\ presult = None

Next ==
    \/ MainStart
    \/ MainDetect
    \/ MainList
    \/ PromptEnter
    \/ PromptRead
    \/ MainPromptReturn
    \/ MainPromptRaise
    \/ ModemOpen
    \/ ModemInit
    \/ ModemSend
    \/ DetectIncomingCall
    \/ PickupCall
    \/ MainAfterPickup
    \/ PlayRecording
    \/ PlayerExit
    \/ SendDtmf
    \/ Hangup
    \/ Close

Spec == Init /\ [][Next]_vars

\* detect_default_port and list_available_ports called on their own, on any
\* platform, filesystem and directory order
CallDetect ==
    /\ pc = "unit"
    /\ \E order \in Perms(fs) :
         /\ dirOrder' = order
         /\ port' = detect_default_port(system, order)
    /\ called' = Append(called, "detect_default_port")
    /\ pc' = "detected"
    /\ UNCHANGED <<argv, system, fs, pathCmds, tty, player, candidates, handle,
                   session, selfPlayer, events, polls, lastLine, isRing, inbuf,
                   exc, log>>
    /\ UNCHANGED promptVars

CallList ==
    /\ pc = "unit"
    /\ \E order \in Perms(fs) :
         /\ dirOrder' = order
         /\ candidates' = list_available_ports(system, order)
    /\ called' = Append(called, "list_available_ports")
    /\ pc' = "listed"
    /\ UNCHANGED <<argv, system, fs, pathCmds, tty, port, player, handle,
                   session, selfPlayer, events, polls, lastLine, isRing, inbuf,
                   exc, log>>
    /\ UNCHANGED promptVars

InitPorts ==
    /\ argv = [port |-> <<>>, no_audio |-> FALSE, dtmf |-> DefaultDtmfArg,
               audio |-> DefaultAudioArg]
    /\ system \in Systems
    /\ fs \in SUBSET DevicePaths
    /\ dirOrder = <<>>
    /\ pathCmds = {}
    /\ tty = FALSE
    /\ pc = "unit"
    /\ port = None
    /\ player = NoPlayer
    /\ candidates = <<>>
    /\ called = <<>>
    /\ handle = "none"
    /\ session = FALSE
    /\ selfPlayer = NoPlayer
    /\ events = <<>>
    /\ polls = 0
    /\ lastLine = <<>>
    /\ isRing = FALSE
    /\ inbuf = <<>>
    /\ exc = "none"
    /\ log = <<>>
    /\ ppc = "idle"
    /\ choices = <<>>
    /\ reads = 0
    /\ lastInput = <<>>
    /\ reports = <<>>
    /\ presult = None

NextPorts == CallDetect \/ CallList

SpecPorts == InitPorts /\ [][NextPorts]_vars

\* is_ring_line called on its own, twice, on any line
CallIsRingLine ==
    /\ pc \in {"unit", "classified"}
    /\ isRing' = is_ring_line(lastLine)
    /\ pc' = IF pc = "unit" THEN "classified" ELSE "classified twice"
    /\ UNCHANGED <<argv, system, fs, dirOrder, pathCmds, tty, port, player,
                   candidates, called, handle, session, selfPlayer, events,
                   polls, lastLine, inbuf, exc, log>>
    /\ UNCHANGED promptVars

InitRing ==
    /\ argv = [port |-> NoFlag, no_audio |-> FALSE, dtmf |-> DefaultDtmfArg,
               audio |-> DefaultAudioArg]
    /\ system = "Linux"
    /\ fs = {}
    /\ dirOrder = <<>>
    /\ pathCmds = {}
    /\ tty = FALSE
    /\ pc = "unit"
    /\ port = None
    /\ player = NoPlayer
    /\ candidates = <<>>
    /\ called = <<>>
    /\ handle = "none"
    /\ session = FALSE
    /\ selfPlayer = NoPlayer
    /\ events = <<>>
    /\ polls = 0
    /\ lastLine \in StringsUpTo(MaxLineLen)
    /\ isRing = FALSE
    /\ inbuf = <<>>
    /\ exc = "none"
    /\ log = <<>>
    /\ ppc = "idle"
    /\ choices = <<>>
    /\ reads = 0
    /\ lastInput = <<>>
    /\ reports = <<>>
    /\ presult = None

NextRing == CallIsRingLine

SpecRing == InitRing /\ [][NextRing]_vars

\* detect_incoming_call on a session just constructed on the default port.
\* The loop is the only thing the single thread does, so it keeps taking
\* iterations: weak fairness of DetectIncomingCall.
InitListen ==
    /\ argv \in [port : {NoFlag}, no_audio : BOOLEAN, dtmf : {DefaultDtmfArg},
                 audio : {DefaultAudioArg}]
    /\ system = "Linux"
    /\ fs = {TtyUSB0, TtyUSB1}
    /\ dirOrder = <<>>
    /\ pathCmds = {"aplay"}
    /\ tty \in BOOLEAN
    /\ pc = "listen"
    /\ port = DefaultPortArg
    /\ player = IF argv.no_audio THEN NoPlayer ELSE "aplay"
    /\ candidates = <<>>
    /\ called = <<>>
    /\ handle = "open"
    /\ session = TRUE
    /\ selfPlayer = "aplay"
    /\ events = <<Ev("open", DefaultPortArg), Ev("write", ATE0)>>
    /\ polls = 0
    /\ lastLine = <<>>
    /\ isRing = FALSE
    /\ inbuf = <<>>
    /\ exc = "none"
    /\ log = <<"info: Starting modem controller", "info: Using audio player">>
    /\ ppc = "idle"
    /\ choices = <<>>
    /\ reads = 0
    /\ lastInput = <<>>
    /\ reports = <<>>
    /\ presult = None

NextListen == ModemSend \/ DetectIncomingCall

SpecListen == InitListen /\ [][NextListen]_vars /\ WF_vars(DetectIncomingCall)

\* prompt_select_port on its own, for any candidate list
InitPrompt ==
    /\ argv = [port |-> NoFlag, no_audio |-> FALSE, dtmf |-> DefaultDtmfArg,
               audio |-> DefaultAudioArg]
    /\ system = "Linux"
    /\ fs = {}
    /\ dirOrder = <<>>
    /\ pathCmds = {}
    /\ tty = FALSE
    /\ pc = "unit"
    /\ port = None
    /\ player = NoPlayer
    /\ candidates = <<>>
    /\ called = <<>>
    /\ handle = "none"
    /\ session = FALSE
    /\ selfPlayer = NoPlayer
    /\ events = <<>>
    /\ polls = 0
    /\ lastLine = <<>>
    /\ isRing = FALSE
    /\ inbuf = <<>>
    /\ exc = "none"
    /\ log = <<>>
    /\ ppc = "enter"
    /\ choices \in ChoiceLists
    /\ reads = 0
    /\ lastInput = <<>>
    /\ reports = <<>>
    /\ presult = None

NextPrompt == PromptEnter \/ PromptRead

SpecPrompt == InitPrompt /\ [][NextPrompt]_vars

----------------------------------------------------------------------------
(* Properties *)

Ops == [i \in 1..Len(events) |-> events[i].op]
Opened == \E i \in 1..Len(events) : events[i].op = "open"
Count(s, x) == Cardinality({ i \in 1..Len(s) : s[i] = x })
Finished == pc \in {"done", "raised"}

\* C1: whenever main has ended, by return or by exception, after the serial
\* handle was opened, the handle has been closed.
C1_ClosedOnEveryExit ==
    (Finished /\ Opened) => (handle = "closed" /\ "close" \in Range(Ops))

\* C2: a run of main that opened the device and ended with no step failing
\* has written exactly ATE0, ATA, AT+VTS=<tone>, ATH, once each and in that
\* order, and its close comes after the write of ATH.
C2_CommandSequence ==
    /\ (pc = "done" /\ Opened) =>
          /\ is_ring_line(lastLine)
          /\ Written = <<ATE0, ATA, VTS(argv.dtmf), ATH>>
          /\ events[Len(events)] = Ev("close", <<>>)
          /\ events[Len(events) - 1] = Ev("write", ATH)
    /\ (exc = "none" /\ handle = "closed") => ATH \in Range(Written)

C2_Witness ==
    /\ pc = "done"
    /\ handle = "closed"
    /\ "run" \in Range(Ops)
    /\ argv.dtmf = "#"
    /\ Written = <<ATE0, ATA, VTS("#"), ATH>>

\* C3: ATA is written only when the line read last is a ring by
\* is_ring_line, and an iteration of the listening loop that read no ring
\* line stays in the loop and writes nothing.
C3_AnswerOnlyAfterRing ==
    /\ [](ATA \in Range(Written) => is_ring_line(lastLine))
    /\ [][(pc = "listen" /\ polls' = polls + 1 /\ exc' = "none"
              /\ ~is_ring_line(lastLine'))
          => (pc' = "listen" /\ events' = events)]_vars

C3_Witness ==
    /\ ATA \in Range(Written)
    /\ polls = 3
    /\ lastLine = <<"r", "i", "n", "g">>

\* C4: run without an explicit port, main consults detect_default_port
\* first; list_available_ports and prompt_select_port come only after it;
\* with an explicit port none of them is consulted.
C4_ResolutionOrder ==
    /\ (argv.port \in {NoFlag, <<>>} /\ pc \notin {"start", "detect"}) =>
          (called # <<>> /\ called[1] = "detect_default_port")
    /\ (argv.port \notin {NoFlag, <<>>}) => called = <<>>
    /\ \A i \in 2..Len(called) : called[i] # "detect_default_port"

\* C5: when detect_default_port returned absent and there are no
\* candidates, or stdin is no TTY, or the operator cancelled, main logs an
\* error and returns with no handle opened and nothing written; and
\* prompt_select_port is called only with a TTY and a non-empty list.
Prompted == "prompt_select_port" \in Range(called)
NoPortResolved ==
    /\ "list_available_ports" \in Range(called)
    /\ pc # "prompt"
    /\ exc = "none"
    /\ candidates = <<>> \/ ~tty \/ presult = None
C5_NoPortNoAction ==
    /\ NoPortResolved =>
          /\ pc = "done"
          /\ log # <<>>
          /\ log[Len(log)] \in {"error: No serial port detected",
                                "error: No serial port selected"}
          /\ handle = "none"
          /\ events = <<>>
    /\ Prompted => (tty /\ candidates # <<>>)
    /\ (~Prompted) => (ppc = "idle" /\ reads = 0)

C5_Witness ==
    /\ pc = "done"
    /\ Prompted
    /\ presult = None
    /\ reads = 2
    /\ log = <<"error: No serial port selected">>

\* C6: play_recording on a session with no audio player raises
\* NoAudioPlayer and starts no process; on a session with a player it never
\* raises NoAudioPlayer.
C6_NoAudioPlayer ==
    /\ [][(pc = "play" /\ pc' # "play" /\ selfPlayer = NoPlayer)
          => (exc' = "NoAudioPlayer" /\ events' = events)]_vars
    /\ [](selfPlayer = NoPlayer => "run" \notin Range(Ops))
    /\ []((session /\ selfPlayer # NoPlayer) => exc # "NoAudioPlayer")

C6_Witness ==
    /\ exc = "NoAudioPlayer"
    /\ pc = "raised"
    /\ ATA \in Range(Written)
    /\ "run" \notin Range(Ops)

\* C7: with --no-audio no player process is started and NoAudioPlayer is
\* never raised, whatever is on the search path; a run that then returns
\* has done open, ATE0, ATA, AT+VTS, ATH, close and nothing else.
C7_NoAudioSkipsPlayback ==
    argv.no_audio =>
       /\ "run" \notin Range(Ops)
       /\ exc # "NoAudioPlayer"
       /\ pc # "play"
       /\ (pc = "done" /\ Opened) =>
             events = << Ev("open", port), Ev("write", ATE0), Ev("write", ATA),
                         Ev("write", VTS(argv.dtmf)), Ev("write", ATH),
                         Ev("close", <<>>) >>

C7_Witness ==
    /\ argv.no_audio
    /\ pathCmds # {}
    /\ selfPlayer # NoPlayer
    /\ pc = "done"
    /\ handle = "closed"

\* C8: once a device operation has failed nothing more is written, main
\* ends by raising, and ATA, AT+VTS and ATH are each written at most once.
C8_NoRetry ==
    /\ [][exc # "none" => Written' = Written]_vars
    /\ []((exc = "DeviceIOError" /\ Finished) => pc = "raised")
    /\ [](exc = "DeviceIOError" => pc \in {"finally", "raised"})
    /\ [](/\ Count(Written, ATA) <= 1
          /\ Count(Written, VTS(argv.dtmf)) <= 1
          /\ Count(Written, ATH) <= 1)

C8_Witness ==
    /\ exc = "DeviceIOError"
    /\ pc = "raised"
    /\ handle = "closed"
    /\ Written = <<ATE0, ATA>>

\* C9: when the open fails the constructor raises: no session, no handle,
\* nothing written, no ring detection; a permission failure differs from
\* any other only by the hint appended to the log.
HintMessages == {"error: Permission denied (Linux hint)",
                 "error: Permission denied (Darwin hint)"}
C9_OpenFailureIsFatal ==
    exc = "OpenError" =>
       /\ pc = "raised"
       /\ ~session
       /\ handle = "none"
       /\ events = <<>>
       /\ polls = 0
       /\ SelectSeq(log, LAMBDA m : m \notin HintMessages)
             = <<"info: Starting modem controller",
                 "error: Failed to open serial port">>
       /\ Len(log) <= 3

C9_Witness ==
    /\ exc = "OpenError"
    /\ pc = "raised"
    /\ log[Len(log)] = "error: Permission denied (Linux hint)"

\* C10: prompt_select_port stops at the first input that is blank or a
\* number within 1..len(choices), returning absent or that candidate; each
\* input before it gave exactly one report; nothing is read after it.
Terminating(sel) ==
    \/ Strip(sel) = <<>>
    \/ /\ IsIntLiteral(Strip(sel))
       /\ IntValue(Strip(sel)) \in 1..Len(choices)
C10_PromptStopsAtFirstValid ==
    /\ [](ppc = "loop" =>
            /\ Len(reports) = reads
            /\ reads > 0 => ~Terminating(lastInput))
    /\ []((ppc = "returned" /\ choices # <<>>) =>
            /\ reads >= 1
            /\ Terminating(lastInput)
            /\ Len(reports) = reads - 1
            /\ presult = IF Strip(lastInput) = <<>> THEN None
                         ELSE choices[IntValue(Strip(lastInput))]
            /\ presult \in {None} \cup Range(choices))
    /\ [][ppc = "returned" => (reads' = reads /\ reports' = reports)]_vars
    /\ [][reads' \in {reads, reads + 1}
          /\ Len(reports') \in {Len(reports), Len(reports) + 1}]_vars

C10_Witness ==
    /\ ppc = "returned"
    /\ choices = <<TtyUSB0, TtyUSB1>>
    /\ reads = 3
    /\ reports = <<"Invalid input", "Invalid selection">>
    /\ lastInput = <<"1">>
    /\ presult = TtyUSB0

\* C11: with an empty candidate list prompt_select_port returns absent at
\* once: it never enters the loop and input_fn is not called.
C11_EmptyListNoRead ==
    choices = <<>> =>
       /\ ppc \in {"enter", "returned"}
       /\ reads = 0
       /\ reports = <<>>
       /\ ppc = "returned" => presult = None

C11_Witness ==
    /\ choices = <<>>
    /\ ppc = "returned"
    /\ presult = None
    /\ reads = 0

\* C12: detect_default_port returns, for the first pattern in the platform's
\* order that matches anything, the match that comes first in glob's order,
\* whatever later patterns match; with no match it returns /dev/ttyUSB0 on
\* Linux, COM1 on Windows and absent on macOS and on any other platform.
Pos(seq, x) == CHOOSE i \in 1..Len(seq) : seq[i] = x
Hits(pats) == { i \in 1..Len(pats) : \E x \in fs : Match(pats[i], x) }
FirstHit(pats) == CHOOSE i \in Hits(pats) : \A j \in Hits(pats) : i <= j
C12_DetectFirstMatch ==
    pc = "detected" =>
       LET pats == DetectPatterns(system) IN
       IF Hits(pats) # {}
       THEN /\ port \in fs
            /\ Match(pats[FirstHit(pats)], port)
            /\ \A y \in fs : Match(pats[FirstHit(pats)], y)
                                => Pos(dirOrder, port) <= Pos(dirOrder, y)
       ELSE port = CASE system = "Linux" -> <<"/dev/", "ttyUSB", "0">>
                     [] system = "Windows" -> <<"COM1">>
                     [] OTHER -> None

C12_Witness ==
    /\ pc = "detected"
    /\ system = "Linux"
    /\ dirOrder = <<TtyACM0, TtyUSB1, TtyUSB0>>
    /\ port = TtyUSB1

\* C14: list_available_ports returns every present path that matches any
\* of the platform's list patterns, grouped in pattern order and sorted
\* within each pattern, not only those of the first pattern that matches;
\* on Windows it returns the empty sequence whatever the filesystem holds.
PatternOf(pats, x) == CHOOSE i \in 1..Len(pats) : Match(pats[i], x)
C14_ListConcatenatesAll ==
    pc = "listed" =>
       IF system = "Windows" THEN candidates = <<>>
       ELSE LET pats == ListPatterns(system)
                all == { x \in fs : \E i \in 1..Len(pats) : Match(pats[i], x) }
            IN /\ Range(candidates) = all
               /\ Len(candidates) = Cardinality(all)
               /\ \A a, b \in 1..Len(candidates) : a < b =>
                     \/ PatternOf(pats, candidates[a]) < PatternOf(pats, candidates[b])
                     \/ /\ PatternOf(pats, candidates[a]) = PatternOf(pats, candidates[b])
                        /\ Pos(SortedPaths, candidates[a]) < Pos(SortedPaths, candidates[b])

C14_Witness ==
    /\ pc = "listed"
    /\ system = "Linux"
    /\ dirOrder = <<SerialById, TtyACM0, TtyUSB1, TtyUSB0>>
    /\ candidates = <<TtyUSB0, TtyUSB1, TtyACM0, SerialById>>

C14_WindowsWitness ==
    /\ pc = "listed"
    /\ system = "Windows"
    /\ fs = DevicePaths
    /\ candidates = <<>>

\* C13: is_ring_line is true of every line with the letters R, I, N, G in
\* a row in any mix of cases, false of the empty line, of every line of
\* whitespace only and of every line without those letters in a row; a
\* second call on the same line gives the same result.
HasRingLetters(line) ==
    \E i \in 1..(Len(line) - 3) :
        /\ line[i] \in {"R", "r"}
        /\ line[i + 1] \in {"I", "i"}
        /\ line[i + 2] \in {"N", "n"}
        /\ line[i + 3] \in {"G", "g"}
C13_RingClassifier ==
    /\ [](pc \in {"classified", "classified twice"} =>
            /\ HasRingLetters(lastLine) => isRing
            /\ lastLine = <<>> => ~isRing
            /\ Range(lastLine) \subseteq Whitespace => ~isRing
            /\ ~HasRingLetters(lastLine) => ~isRing)
    /\ [][pc = "classified" => isRing' = isRing]_vars

\* C15: detect_incoming_call leaves its loop only by returning True in the
\* iteration that read a ring line, or by a failed read; it never returns
\* False; a ring line the modem has delivered leads to True being returned
\* unless a read fails.
RingWaiting ==
    \E i \in 1..Len(inbuf) : is_ring_line(Strip(Decode(inbuf[i])))
C15_BlocksUntilRing ==
    /\ [][(pc = "listen" /\ pc' # "listen") =>
            IF exc' = "none"
            THEN /\ pc' = "pickup"
                 /\ inbuf # <<>>
                 /\ is_ring_line(Strip(Decode(Head(inbuf))))
                 /\ lastLine' = Strip(Decode(Head(inbuf)))
            ELSE pc' = "finally" /\ exc' = "DeviceIOError"]_vars
    /\ [](pc = "pickup" => is_ring_line(lastLine))
    /\ (pc = "listen" /\ RingWaiting) ~> (pc = "pickup" \/ exc = "DeviceIOError")

C15_Witness ==
    /\ pc = "pickup"
    /\ exc = "none"
    /\ polls = 3
    /\ lastLine = <<"R", "I", "N", "G">>
    /\ isRing

\* C16: with playback enabled and a player resolved, the player is started
\* at most once, right after ATA is written; AT+VTS is written only after
\* the player has exited; whatever the exit code the run goes on to the
\* DTMF command, and a run that returns has written AT+VTS and ATH.
PlaybackWanted == ~argv.no_audio /\ session /\ selfPlayer # NoPlayer
C16_PlaybackThenDtmf ==
    /\ [](PlaybackWanted =>
            /\ Count(Ops, "run") <= 1
            /\ \A i \in 1..Len(events) : events[i].op = "run" =>
                  /\ i > 1
                  /\ events[i - 1] = Ev("write", ATA)
                  /\ events[i].arg = <<selfPlayer, argv.audio>>
            /\ \A i \in 1..Len(events) : events[i] = Ev("write", VTS(argv.dtmf)) =>
                  /\ i > 2
                  /\ events[i - 1].op = "exit"
                  /\ events[i - 2].op = "run"
            /\ pc = "done" =>
                  /\ Ops = <<"open", "write", "write", "run", "exit",
                             "write", "write", "close">>
                  /\ Written = <<ATE0, ATA, VTS(argv.dtmf), ATH>>)
    /\ [][(pc = "playing" /\ pc' # "playing") =>
             (pc' = "dtmf" /\ exc' = "none" /\ Len(events') = Len(events) + 1
                /\ events'[Len(events')].op = "exit")]_vars
    /\ [][(pc = "answered" /\ pc' # "answered" /\ PlaybackWanted) => pc' = "play"]_vars

C16_Witness ==
    /\ PlaybackWanted
    /\ pc = "done"
    /\ Len(events) = 8
    /\ events[5] = Ev("exit", <<"1">>)
    /\ Written = <<ATE0, ATA, VTS(argv.dtmf), ATH>>

\* C17: whenever the handle has been closed after ATA was written, ATH has
\* been written too.
C17_AnsweredCallHungUp ==
    (handle = "closed" /\ ATA \in Range(Written)) => ATH \in Range(Written)

\* C18: the handle is opened at most once and closed at most once, it is
\* open exactly between its open and its close, and nothing is read from
\* or written to it once it is closed or before it is open.
C18_SingleHandle ==
    /\ [](/\ Count(Ops, "open") <= 1
          /\ Count(Ops, "close") <= 1
          /\ handle = "open" <=> ("open" \in Range(Ops) /\ "close" \notin Range(Ops))
          /\ handle = "closed" <=> "close" \in Range(Ops)
          /\ handle = "closed" => (Ops[Len(Ops)] = "close" /\ Ops[1] = "open"))
    /\ [][handle = "closed" =>
             (events' = events /\ polls' = polls /\ inbuf' = inbuf
                /\ lastLine' = lastLine /\ handle' = "closed")]_vars
    /\ [][(polls' # polls \/ inbuf' # inbuf
             \/ (Len(events') > Len(events) /\ events'[Len(events')].op = "write"))
          => handle = "open"]_vars

C18_Witness ==
    /\ handle = "closed"
    /\ pc = "done"
    /\ polls = 3
    /\ Count(Ops, "open") = 1
    /\ Count(Ops, "close") = 1
====
